---------------------------- MODULE Spec2Model ----------------------------
(* A model of internal/glance/widget-bilibili.go: the per-UP TTL cache of   *)
(* bilibiliWidget, the fetch of the stale UPs and the merge into            *)
(* widget.Videos.  Strings are sequences of bytes, durations and instants   *)
(* are counted in hours.                                                    *)
EXTENDS Integers, Sequences, FiniteSets, TLC

VARIABLES UPs, UpdateInterval, Limit, isDevelopment,
          cachedVideos, Videos, Error, clock, pc, pass,
          workers, tasksQueue, results, sinceLastReq, lastGap

config == <<UPs, UpdateInterval, Limit, isDevelopment>>
\* the worker pool of a fetch and bilibiliHTTPClient
pool == <<workers, tasksQueue, results, sinceLastReq, lastGap>>
vars == <<UPs, UpdateInterval, Limit, isDevelopment,
          cachedVideos, Videos, Error, clock, pc, pass,
          workers, tasksQueue, results, sinceLastReq, lastGap>>

-----------------------------------------------------------------------------
(* Bounds of the model.                                                     *)

\* the clock stops at MaxTime hours
MaxTime == 3
\* publish times (v.Created) an upstream answer may carry: 1..MaxCreated
MaxCreated == 2
\* the longest Vlist an upstream answer carries
MaxVlist == 2

-----------------------------------------------------------------------------
(* Program constants.                                                       *)

\* cacheDuration := 2 * time.Hour
DefaultCacheDuration == 2
\* widget.Limit = 25
DefaultLimit == 25
\* delay: 500 * time.Millisecond, in units of 250 ms
Delay == 2
\* withWorkers(2)
NumWorkers == 2

\* "https://space.bilibili.com/" as bytes
SpaceUrl == <<104, 116, 116, 112, 115, 58, 47, 47, 115, 112, 97, 99, 101, 46,
              98, 105, 108, 105, 98, 105, 108, 105, 46, 99, 111, 109, 47>>
\* "/" as bytes
Slash == <<47>>

-----------------------------------------------------------------------------
(* Configurations the widget is constructed with.                           *)

\* the UIDs "1", "2", "2/1" and "1\n"
UID1 == <<49>>
UID2 == <<50>>
UID21 == <<50, 47, 49>>
UIDCtl == <<49, 10>>

UP(uid, cache) == [UID |-> uid, Cache |-> cache]

\* the yaml configurations: ups, update-every, limit
Configs ==
  { [ups |-> <<UP(UID1, 0), UP(UID2, 1)>>, every |-> 0, limit |-> 0],
    [ups |-> <<UP(UID1, 0), UP(UID2, 2)>>, every |-> 1, limit |-> 2],
    [ups |-> <<UP(UID1, 0), UP(UID1, 0)>>, every |-> 0, limit |-> 3],
    [ups |-> <<UP(UID1, 0), UP(UID21, 0)>>, every |-> 1, limit |-> -1],
    [ups |-> <<UP(UIDCtl, 0), UP(UID2, 0)>>, every |-> 1, limit |-> 0],
    [ups |-> <<UP(UID2, -1)>>, every |-> 0, limit |-> 1] }

-----------------------------------------------------------------------------
(* Errors.                                                                  *)

\* a nil error of the fetcher
NilErr == [is |-> "nil", failed |-> 0, pool |-> FALSE]
\* errNoContent
errNoContent == [is |-> "errNoContent", failed |-> 0, pool |-> FALSE]
\* fmt.Errorf("%w: %v", errNoContent, err)
errPool == [is |-> "errNoContent", failed |-> 0, pool |-> TRUE]
\* fmt.Errorf("%w: missing videos from %d users", errPartialContent, failed)
errPartialContent(failed) ==
  [is |-> "errPartialContent", failed |-> failed, pool |-> FALSE]

\* widget.Error
NoError == [msg |-> "nil", cause |-> NilErr]
UpdateError(err) == [msg |-> "update", cause |-> err]
RenderError == [msg |-> "render", cause |-> NilErr]

-----------------------------------------------------------------------------
(* Strings and lists.                                                       *)

\* strings.HasSuffix
HasSuffix(s, suffix) ==
  /\ Len(suffix) <= Len(s)
  /\ SubSeq(s, Len(s) - Len(suffix) + 1, Len(s)) = suffix

\* contains(slice, str)
contains(slice, str) == \E i \in 1..Len(slice) : slice[i] = str

\* http.NewRequest fails on a URL that holds an ASCII control byte
NewRequestFails(uid) == \E i \in 1..Len(uid) : uid[i] < 32 \/ uid[i] = 127

RECURSIVE InsertByNewest(_, _)
InsertByNewest(sorted, v) ==
  IF sorted = <<>> THEN <<v>>
  ELSE IF v.TimePosted > Head(sorted).TimePosted
       THEN <<v>> \o sorted
       ELSE <<Head(sorted)>> \o InsertByNewest(Tail(sorted), v)

\* videoList.sortByNewest: descending by TimePosted, ties in input order
RECURSIVE sortByNewest(_)
sortByNewest(vs) ==
  IF vs = <<>> THEN <<>>
  ELSE InsertByNewest(sortByNewest(SubSeq(vs, 1, Len(vs) - 1)), vs[Len(vs)])

\* allVideos[:widget.Limit] when len(allVideos) > widget.Limit
Truncate(vs, limit) == IF Len(vs) > limit THEN SubSeq(vs, 1, limit) ELSE vs

RECURSIVE Concat(_)
Concat(ss) == IF ss = <<>> THEN <<>> ELSE Head(ss) \o Concat(Tail(ss))

-----------------------------------------------------------------------------
(* What the upstream API answers to one request.                            *)

\* Vlist: publish times, newest first (order=pubdate)
Vlists ==
  { vl \in UNION { [1..n -> 1..MaxCreated] : n \in 0..MaxVlist } :
      \A i \in 1..(Len(vl) - 1) : vl[i] > vl[i + 1] }

\* the task's error for a request that the transport or the decoding failed
TaskError == [err |-> "error", Code |-> 0, Vlist |-> <<>>]

\* the task's result for one request: an error (of the transport or of the
\* decoding), or a decoded bilibiliVideoResponse
Outcomes ==
  { TaskError, [err |-> "nil", Code |-> 1, Vlist |-> <<>>] }
  \cup { [err |-> "nil", Code |-> 0, Vlist |-> vl] : vl \in Vlists }


-----------------------------------------------------------------------------
(* fetchBilibiliUserVideos.                                                  *)

\* the requests slice: one request per uid whose request could be built
BuildRequests(uids) == SelectSeq(uids, LAMBDA uid : ~NewRequestFails(uid))

\* workerPoolDo over decodeJsonFromRequestTask: task[i] is what the task
\* yields for requests[i]; results and errors are aligned with the requests
workerPoolDo(requests, task, poolErr) ==
  [responses |-> [i \in 1..Len(requests) |-> task[i]],
   errs |-> [i \in 1..Len(requests) |-> task[i].err],
   err |-> poolErr]

\* the videos appended for response i, tagged with uids[i]
ResponseVideos(uid, response) ==
  [j \in 1..Len(response.Vlist) |->
     [AuthorUrl |-> SpaceUrl \o uid, TimePosted |-> response.Vlist[j]]]

\* ResponseFailed for a response loop that stops at the first failure:
\* every response from the first failed one on counts as failed
ResponseFailedFromFirst(errs, responses, i) ==
  \E k \in 1..i : errs[k] # "nil" \/ responses[k].Code # 0

\* errs[i] != nil or response.Code != 0
ResponseFailed(errs, responses, i) == errs[i] # "nil" \/ responses[i].Code # 0

\* FetchError without the check of len(videos) == 0
FetchErrorNoEmptyCheck(videos, failed) ==
  IF failed > 0 THEN errPartialContent(failed) ELSE NilErr

\* the error returned once every response has been processed
FetchError(videos, failed) ==
  IF Len(videos) = 0 THEN errNoContent
  ELSE IF failed > 0 THEN errPartialContent(failed)
  ELSE NilErr

fetchBilibiliUserVideos(uids, task, poolErr) ==
  LET requests == BuildRequests(uids)
      r == workerPoolDo(requests, task, poolErr)
      n == Len(r.responses)
      videos == Concat([i \in 1..n |->
                  IF ResponseFailed(r.errs, r.responses, i) THEN <<>>
                  ELSE ResponseVideos(uids[i], r.responses[i])])
      failed == Cardinality({i \in 1..n : ResponseFailed(r.errs, r.responses, i)})
      err == FetchError(videos, failed)
  IN  IF r.err THEN [videos |-> <<>>, err |-> errPool]
      ELSE IF err = errNoContent THEN [videos |-> <<>>, err |-> err]
      ELSE [videos |-> sortByNewest(videos), err |-> err]

-----------------------------------------------------------------------------
(* bilibiliWidget.update.                                                    *)

UIDs(ups) == [i \in 1..Len(ups) |-> ups[i].UID]

\* Expired with !now.Before(cache.expireAt) for now.After(cache.expireAt)
ExpiredAtOrAfter(cache, uid, now) ==
  uid \notin DOMAIN cache \/ now >= cache[uid].expireAt

\* !exists || now.After(cache.expireAt)
Expired(cache, uid, now) ==
  uid \notin DOMAIN cache \/ now > cache[uid].expireAt

\* NeedUpdate that never looks at the cache
NeedUpdateAll(dev, ups, cache, now) == UIDs(ups)

\* NeedUpdate without the branch of the development mode
NeedUpdateCacheOnly(dev, ups, cache, now) ==
  SelectSeq(UIDs(ups), LAMBDA uid : Expired(cache, uid, now))

\* NeedUpdate with the test of isDevelopment negated
NeedUpdateInverted(dev, ups, cache, now) ==
  IF ~dev THEN UIDs(ups)
  ELSE SelectSeq(UIDs(ups), LAMBDA uid : Expired(cache, uid, now))

\* needUpdate after the first loop
NeedUpdate(dev, ups, cache, now) ==
  IF dev THEN UIDs(ups)
  ELSE SelectSeq(UIDs(ups), LAMBDA uid : Expired(cache, uid, now))

\* allVideos after the first loop
CachedVideos(dev, ups, cache, now) ==
  IF dev THEN <<>>
  ELSE Concat([i \in 1..Len(ups) |->
         IF Expired(cache, ups[i].UID, now) THEN <<>>
         ELSE cache[ups[i].UID].videos])

\* cacheDuration with the widget's update interval tested after the UP's
\* own cache time, so that the interval wins
cacheDurationIntervalWins(dev, every, up) ==
  IF dev THEN 0
  ELSE IF every > 0 THEN every
  ELSE IF up.Cache > 0 THEN up.Cache
  ELSE DefaultCacheDuration

\* cacheDuration of one UP
cacheDuration(dev, every, up) ==
  IF dev THEN 0
  ELSE IF up.Cache > 0 THEN up.Cache
  ELSE IF every > 0 THEN every
  ELSE DefaultCacheDuration

\* upVideos: the videos of newVideos whose AuthorUrl ends in "/" + uid
upVideos(newVideos, uid) ==
  SelectSeq(newVideos, LAMBDA v : HasSuffix(v.AuthorUrl, Slash \o uid))

\* the entry written for one UP of needUpdate
NewEntry(dev, every, up, newVideos, now) ==
  [videos |-> upVideos(newVideos, up.UID),
   expireAt |-> now + cacheDuration(dev, every, up)]

\* RefreshLoop without the test contains(needUpdate, up.UID)
RECURSIVE RefreshLoopAll(_, _, _, _, _, _)
RefreshLoopAll(i, cache, allVideos, needUpdate, newVideos, now) ==
  IF i > Len(UPs) THEN [cache |-> cache, allVideos |-> allVideos]
  ELSE LET e == NewEntry(isDevelopment, UpdateInterval, UPs[i], newVideos, now)
       IN  RefreshLoopAll(i + 1,
                          (UPs[i].UID :> e) @@ cache,
                          allVideos \o e.videos,
                          needUpdate, newVideos, now)

\* RefreshLoop that makes a new map for the entry it writes, dropping the
\* entries of the sources it does not refresh
RECURSIVE RefreshLoopRebuild(_, _, _, _, _, _)
RefreshLoopRebuild(i, cache, allVideos, needUpdate, newVideos, now) ==
  IF i > Len(UPs) THEN [cache |-> cache, allVideos |-> allVideos]
  ELSE IF ~contains(needUpdate, UPs[i].UID)
       THEN RefreshLoopRebuild(i + 1, cache, allVideos, needUpdate, newVideos, now)
       ELSE LET e == NewEntry(isDevelopment, UpdateInterval, UPs[i], newVideos, now)
            IN  RefreshLoopRebuild(i + 1,
                                   (UPs[i].UID :> e),
                                   allVideos \o e.videos,
                                   needUpdate, newVideos, now)

\* the second loop over widget.UPs, from index i on
RECURSIVE RefreshLoop(_, _, _, _, _, _)
RefreshLoop(i, cache, allVideos, needUpdate, newVideos, now) ==
  IF i > Len(UPs) THEN [cache |-> cache, allVideos |-> allVideos]
  ELSE IF ~contains(needUpdate, UPs[i].UID)
       THEN RefreshLoop(i + 1, cache, allVideos, needUpdate, newVideos, now)
       ELSE LET e == NewEntry(isDevelopment, UpdateInterval, UPs[i], newVideos, now)
            IN  RefreshLoop(i + 1,
                            (UPs[i].UID :> e) @@ cache,
                            allVideos \o e.videos,
                            needUpdate, newVideos, now)

\* Publish that cuts to the limit before it sorts
PublishCutFirst(allVideos, limit) == sortByNewest(Truncate(allVideos, limit))

\* widget.Videos once allVideos is sorted and cut
Publish(allVideos, limit) == Truncate(sortByNewest(allVideos), limit)

\* the locals of update when it returns, with the widget as it was called
Frame(now, needUpdate, requests, task, poolErr, f, allVideos, ret) ==
  [now |-> now, needUpdate |-> needUpdate, requests |-> requests,
   task |-> task, poolErr |-> poolErr, newVideos |-> f.videos, err |-> f.err,
   allVideos |-> allVideos, ret |-> ret,
   cachedVideos |-> cachedVideos, Videos |-> Videos, Error |-> Error]

\* no call of update is returning
NoFrame ==
  [now |-> 0, needUpdate |-> <<>>, requests |-> <<>>, task |-> <<>>,
   poolErr |-> FALSE, newVideos |-> <<>>, err |-> NilErr,
   allVideos |-> <<>>, ret |-> "none",
   cachedVideos |-> <<>>, Videos |-> <<>>, Error |-> NoError]

\* one call of update at instant now; task and poolErr are what the
\* transport and the pool do during the call
update(now, task, poolErr) ==
  LET needUpdate == NeedUpdate(isDevelopment, UPs, cachedVideos, now)
      cached == CachedVideos(isDevelopment, UPs, cachedVideos, now)
      requests == BuildRequests(needUpdate)
  IN  /\ clock' = now
      /\ IF Len(needUpdate) > 0
         THEN LET f == fetchBilibiliUserVideos(needUpdate, task, poolErr)
                  r == RefreshLoop(1, cachedVideos, cached, needUpdate, f.videos, now)
              IN  IF f.err # NilErr
                  THEN /\ Error' = UpdateError(f.err)
                       /\ UNCHANGED <<cachedVideos, Videos>>
                       /\ pass' = Frame(now, needUpdate, requests, task, poolErr,
                                        f, cached, "failed")
                  ELSE /\ cachedVideos' = r.cache
                       /\ Videos' = Publish(r.allVideos, Limit)
                       /\ UNCHANGED Error
                       /\ pass' = Frame(now, needUpdate, requests, task, poolErr,
                                        f, r.allVideos, "done")
         ELSE /\ Videos' = Publish(cached, Limit)
              /\ UNCHANGED <<cachedVideos, Error>>
              /\ pass' = Frame(now, needUpdate, requests, task, poolErr,
                               [videos |-> <<>>, err |-> NilErr], cached, "done")

\* what the transport and the pool may do during one call at instant now:
\* one outcome per request, or a pool that fails before any outcome is kept
Calls(now) ==
  LET needUpdate == NeedUpdate(isDevelopment, UPs, cachedVideos, now)
      n == Len(BuildRequests(needUpdate))
  IN  { [task |-> t, poolErr |-> FALSE] : t \in [1..n -> Outcomes] }
      \cup (IF Len(needUpdate) > 0
            THEN { [task |-> [i \in 1..n |-> TaskError], poolErr |-> TRUE] }
            ELSE {})

-----------------------------------------------------------------------------
(* The state machine.                                                        *)

\* the workers of the pool
Workers == 1..NumWorkers

\* a worker that holds no request
IdleWorker == [pc |-> "idle", req |-> 0, sleepTime |-> 0, rem |-> 0]

\* initialize(): an empty cache, Limit defaulted; bilibiliHTTPClient with
\* lastReq the zero time, so that time.Since(lastReq) is beyond the delay
Init ==
  /\ \E c \in Configs :
       /\ UPs = c.ups
       /\ UpdateInterval = c.every
       /\ Limit = IF c.limit <= 0 THEN DefaultLimit ELSE c.limit
  /\ isDevelopment \in BOOLEAN
  /\ cachedVideos = <<>>
  /\ Videos = <<>>
  /\ Error = NoError
  /\ clock = 0
  /\ pc = "idle"
  /\ pass = NoFrame
  /\ workers = [w \in Workers |-> IdleWorker]
  /\ tasksQueue = 0
  /\ results = <<>>
  /\ sinceLastReq = Delay
  /\ lastGap = Delay

\* the scheduler calls update
Update ==
  /\ pc = "idle"
  /\ \E now \in clock..MaxTime : \E c \in Calls(now) :
       update(now, c.task, c.poolErr)
  /\ pc' = "updated"
  /\ UNCHANGED <<config, pool>>

\* Render with no videos: it calls update
RenderUpdate ==
  /\ pc = "idle"
  /\ Len(Videos) = 0
  /\ \E now \in clock..MaxTime : \E c \in Calls(now) :
       update(now, c.task, c.poolErr)
  /\ pc' = "render"
  /\ UNCHANGED <<config, pool>>

\* Render after its call of update: the second check of len(widget.Videos)
RenderCheck ==
  /\ pc = "render"
  /\ Error' = IF Len(Videos) = 0 THEN RenderError ELSE Error
  /\ pc' = "idle"
  /\ pass' = NoFrame
  /\ UNCHANGED <<config, pool, cachedVideos, Videos, clock>>

\* update has returned to the scheduler
UpdateReturn ==
  /\ pc = "updated"
  /\ pc' = "idle"
  /\ pass' = NoFrame
  /\ UNCHANGED <<config, pool, cachedVideos, Videos, Error, clock>>

\* Render with videos: no update
RenderCached ==
  /\ pc = "idle"
  /\ Len(Videos) > 0
  /\ pc' = "idle"
  /\ UNCHANGED <<config, pool, cachedVideos, Videos, Error, clock, pass>>

Next == Update \/ UpdateReturn \/ RenderUpdate \/ RenderCheck \/ RenderCached

Spec == Init /\ [][Next]_vars

-----------------------------------------------------------------------------
(* Vocabulary of the properties: what a returning call of update saw.       *)

\* update is returning: pass holds its locals
Returning == pass.ret # "none"

\* the fetcher was called in the returning pass
Fetched == Returning /\ Len(pass.needUpdate) > 0

\* request i of the returning pass failed: transport, decode or status
RequestFailed(i) == pass.task[i].err # "nil" \/ pass.task[i].Code # 0

\* the requests of the returning pass that failed
FailedRequests == {i \in 1..Len(pass.requests) : RequestFailed(i)}

\* no request of the returning pass brought an item
ZeroItems ==
  \A i \in 1..Len(pass.requests) : RequestFailed(i) \/ pass.task[i].Vlist = <<>>

\* the number of places of seq that hold v
Count(seq, v) == Cardinality({i \in 1..Len(seq) : seq[i] = v})

\* every item of part is in whole, as many times
ContainsAll(whole, part) ==
  \A i \in 1..Len(part) : Count(whole, part[i]) >= Count(part, part[i])

\* non-increasing by publish time
SortedByNewest(vs) ==
  \A i \in 1..(Len(vs) - 1) : vs[i].TimePosted >= vs[i + 1].TimePosted

Min(a, b) == IF a < b THEN a ELSE b

-----------------------------------------------------------------------------
(* C1 *)

\* k of the n distinct stale sources failed, 0 < k < n, every other
\* returned items
PartialPass ==
  /\ Fetched
  /\ ~pass.poolErr
  /\ Len(pass.requests) = Len(pass.needUpdate)
  /\ \A i, j \in 1..Len(pass.needUpdate) :
       i # j => pass.needUpdate[i] # pass.needUpdate[j]
  /\ FailedRequests # {}
  /\ \E i \in 1..Len(pass.requests) : ~RequestFailed(i)
  /\ \A i \in 1..Len(pass.requests) :
       ~RequestFailed(i) => pass.task[i].Vlist # <<>>

\* C1: in a pass where k of the n stale sources fail (0 < k < n) and the
\* others return items, each successful source gets its cache entry written,
\* widget.Videos holds the items of the successful sources (as far as Limit
\* allows), and the surfaced error is the partial-content error carrying k.
C1_PartialContentIsNonFatal ==
  PartialPass =>
    /\ \A i \in 1..Len(pass.requests) :
         ~RequestFailed(i) =>
           /\ pass.requests[i] \in DOMAIN cachedVideos
           /\ ContainsAll(cachedVideos[pass.requests[i]].videos,
                          ResponseVideos(pass.requests[i], pass.task[i]))
           /\ \/ Len(Videos) = Limit
              \/ ContainsAll(Videos, ResponseVideos(pass.requests[i], pass.task[i]))
    /\ Error = UpdateError(errPartialContent(Cardinality(FailedRequests)))

-----------------------------------------------------------------------------
(* C2 *)

\* the fetcher's error is fatal: the pool failed, or no item was obtained
FatalFetch == Fetched /\ (pass.poolErr \/ ZeroItems)

\* C2: when the fetcher returns a fatal error (zero items obtained, or the
\* worker pool failed), update returns without merging: the cache and
\* widget.Videos are what they were before the pass and widget.Error wraps
\* the fetcher's errNoContent.
C2_FatalErrorKeepsCacheAndFeed ==
  FatalFetch =>
    /\ pass.ret = "failed"
    /\ cachedVideos = pass.cachedVideos
    /\ Videos = pass.Videos
    /\ Error.msg = "update"
    /\ Error.cause.is = "errNoContent"
    /\ Error.cause.pool = pass.poolErr

\* a fatal pass over a widget that already had cached entries and a feed
C2_Witness ==
  /\ FatalFetch
  /\ DOMAIN pass.cachedVideos # {}
  /\ Len(pass.Videos) > 0
  /\ pass.Error = NoError

-----------------------------------------------------------------------------
(* C3 *)

\* the sources of the returning fetch that failed or were never requested
FailedSources ==
  (Len(pass.needUpdate) - Len(pass.requests)) + Cardinality(FailedRequests)

\* C3: a fetch returns errNoContent if no item was obtained; otherwise the
\* partial-content error carrying the number of failed sources if some
\* source failed; and a nil error only if every source of uids was
\* requested and succeeded.
C3_FetchErrorClassifiesSources ==
  (Fetched /\ ~pass.poolErr) =>
    /\ ZeroItems => pass.err = errNoContent
    /\ (~ZeroItems /\ FailedSources > 0) =>
         pass.err = errPartialContent(FailedSources)
    /\ pass.err = NilErr =>
         /\ Len(pass.requests) = Len(pass.needUpdate)
         /\ FailedRequests = {}

-----------------------------------------------------------------------------
(* C4 *)

\* uid had no entry, or an entry past its expiry, when the pass checked
StaleAtCheck(uid) ==
  \/ uid \notin DOMAIN pass.cachedVideos
  \/ pass.now > pass.cachedVideos[uid].expireAt

\* the cached batches of the configured sources, in configuration order
RECURSIVE CachedBatches(_)
CachedBatches(i) ==
  IF i > Len(UPs) THEN <<>>
  ELSE pass.cachedVideos[UPs[i].UID].videos \o CachedBatches(i + 1)

\* C4: in normal mode a request is issued for a source only if the source
\* was stale at the pass's check time; when no configured source is stale
\* no request is issued, the cache is unchanged and the merged list is the
\* cached batches only.
C4_RequestsOnlyForStaleSources ==
  (Returning /\ ~isDevelopment) =>
    /\ \A i \in 1..Len(pass.requests) : StaleAtCheck(pass.requests[i])
    /\ (\A i \in 1..Len(UPs) : ~StaleAtCheck(UPs[i].UID)) =>
         /\ pass.requests = <<>>
         /\ pass.task = <<>>
         /\ pass.ret = "done"
         /\ cachedVideos = pass.cachedVideos
         /\ pass.allVideos = CachedBatches(1)

\* a normal-mode pass in which nothing is stale and the cache holds videos
C4_Witness ==
  /\ Returning
  /\ ~isDevelopment
  /\ \A i \in 1..Len(UPs) : ~StaleAtCheck(UPs[i].UID)
  /\ Len(pass.allVideos) > 0
  /\ pass.requests = <<>>

-----------------------------------------------------------------------------
(* C5 *)

\* C5 as amended: in normal mode the stale set is exactly the configured
\* sources with no entry or with now strictly after expireAt, in
\* configuration order; at now = expireAt the entry is still fresh.
C5_StaleStrictlyAfterExpiry ==
  (Returning /\ ~isDevelopment) =>
    pass.needUpdate =
      SelectSeq(UIDs(UPs),
                LAMBDA uid : \/ uid \notin DOMAIN pass.cachedVideos
                             \/ pass.now > pass.cachedVideos[uid].expireAt)

\* a normal-mode pass that checks one source exactly at its expiry while
\* another source is past its expiry
C5_Witness ==
  /\ Returning
  /\ ~isDevelopment
  /\ \E i, j \in 1..Len(UPs) :
       /\ UPs[i].UID \in DOMAIN pass.cachedVideos
       /\ pass.now = pass.cachedVideos[UPs[i].UID].expireAt
       /\ ~contains(pass.needUpdate, UPs[i].UID)
       /\ UPs[j].UID \in DOMAIN pass.cachedVideos
       /\ pass.now > pass.cachedVideos[UPs[j].UID].expireAt
       /\ contains(pass.needUpdate, UPs[j].UID)

\* C5: in normal mode the stale set is exactly the configured sources with
\* no entry or with now >= expireAt, in configuration order.
C5_StaleAtOrAfterExpiry ==
  (Returning /\ ~isDevelopment) =>
    pass.needUpdate =
      SelectSeq(UIDs(UPs),
                LAMBDA uid : \/ uid \notin DOMAIN pass.cachedVideos
                             \/ pass.now >= pass.cachedVideos[uid].expireAt)

-----------------------------------------------------------------------------
(* C6 *)

\* C6: in development mode every configured source is in the stale set of
\* every pass, whatever the cache holds, and every merged item was fetched
\* in that pass.
C6_DevelopmentRefetchesAll ==
  (Returning /\ isDevelopment) =>
    /\ Len(pass.needUpdate) = Len(UPs)
    /\ \A i \in 1..Len(UPs) : pass.needUpdate[i] = UPs[i].UID
    /\ \A i \in 1..Len(pass.allVideos) :
         \E j \in 1..Len(pass.newVideos) : pass.newVideos[j] = pass.allVideos[i]

\* a development-mode pass that merges although every source had an entry
\* that was not past its expiry
C6_Witness ==
  /\ Returning
  /\ isDevelopment
  /\ pass.ret = "done"
  /\ Len(pass.allVideos) > 0
  /\ \A i \in 1..Len(UPs) :
       /\ UPs[i].UID \in DOMAIN pass.cachedVideos
       /\ pass.now <= pass.cachedVideos[UPs[i].UID].expireAt
       /\ Len(pass.cachedVideos[UPs[i].UID].videos) > 0

-----------------------------------------------------------------------------
(* C7 *)

\* C7: a source whose effective TTL is zero or negative is in the stale set
\* of every pass, also of a pass at the very instant of the refresh that
\* stored its entry.
C7_ZeroTTLAlwaysStale ==
  Returning =>
    \A i \in 1..Len(UPs) :
      cacheDuration(isDevelopment, UpdateInterval, UPs[i]) <= 0 =>
        contains(pass.needUpdate, UPs[i].UID)

\* a pass at the instant at which a zero-TTL entry was stored (its expireAt
\* is now + 0), with the source stale again and refreshed again
C7_Witness ==
  /\ Returning
  /\ pass.ret = "done"
  /\ \E i \in 1..Len(UPs) :
       /\ cacheDuration(isDevelopment, UpdateInterval, UPs[i]) = 0
       /\ UPs[i].UID \in DOMAIN pass.cachedVideos
       /\ pass.cachedVideos[UPs[i].UID].expireAt = pass.now
       /\ contains(pass.needUpdate, UPs[i].UID)
       /\ cachedVideos[UPs[i].UID].expireAt = pass.now

-----------------------------------------------------------------------------
(* C8 *)

\* C8: a configured source that is not in the pass's stale set keeps its
\* cache entry (videos and expireAt) through the pass, and its cached videos
\* are all in the merged list before truncation.
C8_FreshSourcesUntouched ==
  Returning =>
    \A i \in 1..Len(UPs) :
      ~contains(pass.needUpdate, UPs[i].UID) =>
        /\ UPs[i].UID \in DOMAIN pass.cachedVideos
        /\ UPs[i].UID \in DOMAIN cachedVideos
        /\ cachedVideos[UPs[i].UID] = pass.cachedVideos[UPs[i].UID]
        /\ ContainsAll(pass.allVideos, pass.cachedVideos[UPs[i].UID].videos)
        /\ pass.ret = "done" =>
             ContainsAll(sortByNewest(pass.allVideos),
                         pass.cachedVideos[UPs[i].UID].videos)

\* a pass that refreshes one source while another, with cached videos, is
\* not stale
C8_Witness ==
  /\ Returning
  /\ pass.ret = "done"
  /\ \E i, j \in 1..Len(UPs) :
       /\ ~contains(pass.needUpdate, UPs[i].UID)
       /\ Len(pass.cachedVideos[UPs[i].UID].videos) > 0
       /\ contains(pass.needUpdate, UPs[j].UID)
       /\ Len(cachedVideos[UPs[j].UID].videos) > 0

-----------------------------------------------------------------------------
(* C9 *)

\* vs holds the newest items of all: every item of all is in vs, or is no
\* newer than the last item of vs
NewestOf(vs, all) ==
  /\ ContainsAll(all, vs)
  /\ \A i \in 1..Len(all) :
       Count(all, all[i]) > Count(vs, all[i]) =>
         /\ Len(vs) > 0
         /\ all[i].TimePosted <= vs[Len(vs)].TimePosted

\* widget.Videos is the sorted merged list cut to Limit
PublishedFromMerge ==
  /\ SortedByNewest(Videos)
  /\ Len(Videos) = Min(Limit, Len(pass.allVideos))
  /\ NewestOf(Videos, pass.allVideos)

\* every request of the returning pass succeeded (none, when nothing was stale)
AllFetchedSucceed == Returning /\ ~pass.poolErr /\ FailedRequests = {}

\* C9 as amended: after every pass that reaches the merge (nothing was
\* stale, or the fetcher returned no error), widget.Videos is sorted
\* non-increasing by publish time, has length min(Limit, length of the
\* merged list) and holds the newest items of the whole merged list.
C9_PublishedIsSortedPrefixOfMerge ==
  (Returning /\ pass.ret = "done") => PublishedFromMerge

\* a pass that merges a cached batch and a fetched batch, with the newest
\* item not in first place of the merged list, and cuts it to Limit
C9_Witness ==
  /\ Returning
  /\ pass.ret = "done"
  /\ Len(pass.needUpdate) > 0
  /\ Len(pass.needUpdate) < Len(UPs)
  /\ Len(pass.allVideos) > Limit
  /\ ~SortedByNewest(pass.allVideos)

\* C9: after every pass in which all fetched sources succeed, widget.Videos
\* is sorted non-increasing by publish time, has length min(Limit, number
\* of merged items) and is the prefix of the merged and sorted list.
C9_AllSucceedPublishesMerge ==
  AllFetchedSucceed => PublishedFromMerge

-----------------------------------------------------------------------------
(* C10 *)

\* the items of vs that carry the author URL of uid
Tagged(vs, uid) == SelectSeq(vs, LAMBDA v : v.AuthorUrl = SpaceUrl \o uid)

\* C10: in every pass that merges, a configured source contributes its
\* cached batch if it is not stale and, if it is stale, the items fetched
\* for it in this pass, each item once.
C10_EachSourceContributesOnce ==
  (Returning /\ pass.ret = "done") =>
    \A i \in 1..Len(UPs) :
      Len(Tagged(pass.allVideos, UPs[i].UID)) =
        IF contains(pass.needUpdate, UPs[i].UID)
        THEN Len(Tagged(pass.newVideos, UPs[i].UID))
        ELSE Len(pass.cachedVideos[UPs[i].UID].videos)

-----------------------------------------------------------------------------
(* The fetch in steps: the two workers of workerPoolDo, each calling         *)
(* bilibiliHTTPClient.Do for the request it took.                            *)

\* the latest hour at which the stepwise fetch is called
PoolMaxTime == 1

\* the configurations of the stepwise fetch
PoolConfigs == {c \in Configs : Len(c.ups) = 2 /\ c.limit = 0}

\* what a request of the stepwise fetch is answered: an error, a non-zero
\* code, no video or one video
PoolOutcomes == {o \in Outcomes : Len(o.Vlist) <= 1 /\ \A j \in 1..Len(o.Vlist) : o.Vlist[j] = 1}

\* update is inside fetchBilibiliUserVideos, for the scheduler or for Render
FetchingPcs == {"fetching", "render_fetching"}

\* where the caller of update is once update has returned
ReturnedPcs == {"updated", "render"}

FetchingPc(returned) == IF returned = "updated" THEN "fetching" ELSE "render_fetching"

ReturnedPc(fetching) == IF fetching = "fetching" THEN "updated" ELSE "render"

\* the locals of update while the fetch is running
FetchingFrame(now, needUpdate) ==
  [NoFrame EXCEPT !.now = now, !.needUpdate = needUpdate,
                  !.requests = BuildRequests(needUpdate),
                  !.cachedVideos = cachedVideos, !.Videos = Videos,
                  !.Error = Error]

\* the result slot of a request whose task has not finished
ZeroOutcome == [err |-> "nil", Code |-> 0, Vlist |-> <<>>]

\* the results slice of the pool: one slot per request, in request order
Collected(rs, n) == [i \in 1..n |-> IF i \in DOMAIN rs THEN rs[i] ELSE ZeroOutcome]

\* workerPoolDo returns once every request has its outcome and every worker
\* has finished
PoolDone(rs, ws, n) ==
  /\ DOMAIN rs = 1..n
  /\ \A w \in Workers : ws[w].pc = "idle"

\* time.Sleep(sleepTime) in a loop that never ends once it was entered
NextAfterSleepAgain(sleepTime) == IF sleepTime > 0 THEN "sleep" ELSE "write"

\* after time.Sleep(sleepTime) the caller goes on to c.lastReq = time.Now()
NextAfterSleep(sleepTime) == "write"

\* update is called: it computes needUpdate and, if a source is stale, hands
\* the requests to the pool; with no stale source it merges and returns
Begin(returned) ==
  /\ pc = "idle"
  /\ \E now \in clock..PoolMaxTime :
       LET needUpdate == NeedUpdate(isDevelopment, UPs, cachedVideos, now)
       IN  IF Len(needUpdate) = 0
           THEN /\ update(now, <<>>, FALSE)
                /\ pc' = returned
                /\ UNCHANGED pool
           ELSE /\ clock' = now
                /\ pass' = FetchingFrame(now, needUpdate)
                /\ pc' = FetchingPc(returned)
                /\ tasksQueue' = 1
                /\ results' = <<>>
                /\ sinceLastReq' = IF now > clock THEN Delay ELSE sinceLastReq
                /\ UNCHANGED <<workers, lastGap, cachedVideos, Videos, Error>>
  /\ UNCHANGED config

\* the scheduler calls update
PoolUpdate == pc = "idle" /\ Begin("updated")

\* Render with no videos calls update
PoolRenderUpdate == Len(Videos) = 0 /\ Begin("render")

\* a free worker takes the next request of the queue
Take(w) ==
  /\ pc \in FetchingPcs
  /\ workers[w].pc = "idle"
  /\ tasksQueue \in 1..Len(pass.requests)
  /\ workers' = [workers EXCEPT ![w] = [IdleWorker EXCEPT !.pc = "read", !.req = tasksQueue]]
  /\ tasksQueue' = tasksQueue + 1
  /\ UNCHANGED <<config, cachedVideos, Videos, Error, clock, pc, pass,
                 results, sinceLastReq, lastGap>>

\* elapsed := time.Since(c.lastReq) and the test elapsed < c.delay; a read
\* while another caller is at its write of lastReq is unsynchronised and may
\* see any value
Read(w) ==
  /\ pc \in FetchingPcs
  /\ workers[w].pc = "read"
  /\ \E elapsed \in (IF \E v \in Workers \ {w} : workers[v].pc = "write"
                     THEN 0..Delay ELSE {sinceLastReq}) :
       workers' = [workers EXCEPT ![w] =
                     IF elapsed < Delay
                     THEN [@ EXCEPT !.pc = "sleep", !.sleepTime = Delay - elapsed,
                                    !.rem = Delay - elapsed]
                     ELSE [@ EXCEPT !.pc = "write"]]
  /\ UNCHANGED <<config, cachedVideos, Videos, Error, clock, pc, pass,
                 tasksQueue, results, sinceLastReq, lastGap>>

\* time.Sleep(sleepTime) returns
Wake(w) ==
  /\ pc \in FetchingPcs
  /\ workers[w].pc = "sleep"
  /\ workers[w].rem = 0
  /\ workers' = [workers EXCEPT ![w].pc = NextAfterSleep(workers[w].sleepTime)]
  /\ UNCHANGED <<config, cachedVideos, Videos, Error, clock, pc, pass,
                 tasksQueue, results, sinceLastReq, lastGap>>

\* c.lastReq = time.Now() and the request goes out
Issue(w) ==
  /\ pc \in FetchingPcs
  /\ workers[w].pc = "write"
  /\ workers' = [workers EXCEPT ![w].pc = "call"]
  /\ lastGap' = sinceLastReq
  /\ sinceLastReq' = 0
  /\ UNCHANGED <<config, cachedVideos, Videos, Error, clock, pc, pass,
                 tasksQueue, results>>

\* Respond by a task that also writes the cache entry of its source
RespondWritingCache(w) ==
  /\ pc \in FetchingPcs
  /\ workers[w].pc = "call"
  /\ \E o \in PoolOutcomes :
       /\ results' = (workers[w].req :> o) @@ results
       /\ cachedVideos' =
            (pass.requests[workers[w].req] :>
               [videos |-> ResponseVideos(pass.requests[workers[w].req], o),
                expireAt |-> pass.now]) @@ cachedVideos
  /\ workers' = [workers EXCEPT ![w] = IdleWorker]
  /\ UNCHANGED <<config, Videos, Error, clock, pc, pass,
                 tasksQueue, sinceLastReq, lastGap>>

\* c.client.Do returns and the task stores its outcome in the slot of the
\* request
Respond(w) ==
  /\ pc \in FetchingPcs
  /\ workers[w].pc = "call"
  /\ \E o \in PoolOutcomes : results' = (workers[w].req :> o) @@ results
  /\ workers' = [workers EXCEPT ![w] = IdleWorker]
  /\ UNCHANGED <<config, cachedVideos, Videos, Error, clock, pc, pass,
                 tasksQueue, sinceLastReq, lastGap>>

\* a quarter of a second passes
Tick ==
  /\ pc \in FetchingPcs
  /\ sinceLastReq < Delay \/ \E w \in Workers : workers[w].rem > 0
  /\ sinceLastReq' = Min(sinceLastReq + 1, Delay)
  /\ workers' = [w \in Workers |->
                   IF workers[w].rem > 0
                   THEN [workers[w] EXCEPT !.rem = @ - 1]
                   ELSE workers[w]]
  /\ UNCHANGED <<config, cachedVideos, Videos, Error, clock, pc, pass,
                 tasksQueue, results, lastGap>>

\* the pool returns its results and update goes on to its end
PoolFinish ==
  /\ pc \in FetchingPcs
  /\ PoolDone(results, workers, Len(pass.requests))
  /\ update(pass.now, Collected(results, Len(pass.requests)), FALSE)
  /\ pc' = ReturnedPc(pc)
  /\ tasksQueue' = 0
  /\ results' = <<>>
  /\ UNCHANGED <<config, workers, sinceLastReq, lastGap>>

\* the pool fails before it has scheduled any work
PoolFail ==
  /\ pc \in FetchingPcs
  /\ tasksQueue = 1
  /\ \A w \in Workers : workers[w].pc = "idle"
  /\ update(pass.now, [i \in 1..Len(pass.requests) |-> TaskError], TRUE)
  /\ pc' = ReturnedPc(pc)
  /\ tasksQueue' = 0
  /\ results' = <<>>
  /\ UNCHANGED <<config, workers, sinceLastReq, lastGap>>

PoolInit == Init /\ \E c \in PoolConfigs : UPs = c.ups /\ UpdateInterval = c.every

PoolNext ==
  \/ PoolUpdate
  \/ PoolRenderUpdate
  \/ \E w \in Workers : Take(w)
  \/ \E w \in Workers : Read(w)
  \/ \E w \in Workers : Wake(w)
  \/ \E w \in Workers : Issue(w)
  \/ \E w \in Workers : Respond(w)
  \/ Tick
  \/ PoolFinish
  \/ PoolFail
  \/ UpdateReturn
  \/ RenderCheck
  \/ RenderCached

PoolSpec == PoolInit /\ [][PoolNext]_vars

\* a step of a pass inside its fetch, or of the caller after the pass: of a
\* worker, of the clock, or the return to the caller
PassStep ==
  \/ \E w \in Workers : Take(w) \/ Read(w) \/ Wake(w) \/ Issue(w) \/ Respond(w)
  \/ Tick
  \/ UpdateReturn
  \/ RenderCheck

\* the pool is done and update goes on to its return
FinishStep ==
  /\ pc \in FetchingPcs
  /\ PoolDone(results, workers, Len(pass.requests))
  /\ pc' = ReturnedPc(pc)

\* the transport answers, the workers and the orchestration thread are
\* scheduled, and time passes: a pass that can take a step takes one, and
\* once the pool is done update goes on; nothing obliges anyone to call
\* update
PoolFairness == WF_vars(PassStep) /\ WF_pc(FinishStep)

PoolFair == PoolInit /\ [][PoolNext]_vars /\ PoolFairness

-----------------------------------------------------------------------------
(* C11 *)

\* C11: whatever the interleaving of the two workers in
\* delayedHTTPClient.Do, a request is issued at least the delay (500 ms)
\* after the request issued before it: the read of lastReq, the wait and
\* the write of lastReq are one exclusive gate.
C11_IssuedRequestsAreSpaced == lastGap >= Delay

-----------------------------------------------------------------------------
(* C12 *)

\* the items of vs that uid's response answer brought: one per publish time
\* of the answer, each carrying the author URL of uid
BroughtBy(vs, uid, answer) ==
  \A k \in 1..Len(answer.Vlist) :
    \E j \in 1..Len(vs) :
      /\ vs[j].AuthorUrl = SpaceUrl \o uid
      /\ vs[j].TimePosted = answer.Vlist[k]

\* C12: in every fetch, whatever the order in which the workers finish,
\* outcome i is the outcome of the request built for source i: the items of
\* a response are tagged with the source whose request it answers and, when
\* the pass goes on, are cached under that source; also when the request of
\* some source cannot be built.
C12_OutcomesPairedWithTheirSource ==
  (Fetched /\ ~pass.poolErr /\ pass.err # errNoContent) =>
    \A i \in 1..Len(pass.requests) :
      ~RequestFailed(i) =>
        /\ BroughtBy(pass.newVideos, pass.requests[i], pass.task[i])
        /\ pass.ret = "done" =>
             /\ pass.requests[i] \in DOMAIN cachedVideos
             /\ BroughtBy(cachedVideos[pass.requests[i]].videos,
                          pass.requests[i], pass.task[i])

-----------------------------------------------------------------------------
(* C13 *)

\* source i of the configuration is refreshed by the returning pass
Refreshed(i) ==
  /\ Returning
  /\ pass.ret = "done"
  /\ contains(pass.needUpdate, UPs[i].UID)

\* the time to live the configuration gives source i
EffectiveTTL(i) ==
  IF isDevelopment THEN 0
  ELSE IF UPs[i].Cache > 0 THEN UPs[i].Cache
  ELSE IF UpdateInterval > 0 THEN UpdateInterval
  ELSE 2

\* C13: after a successful refresh of source s in a pass whose check time is
\* now, the entry of s expires at now + effectiveTTL(s): the override of the
\* source if it is > 0, else the default of the widget if it is > 0, else
\* 2 hours; 0 in development mode.
C13_ExpiryIsNowPlusEffectiveTTL ==
  \A i \in 1..Len(UPs) :
    Refreshed(i) =>
      /\ UPs[i].UID \in DOMAIN cachedVideos
      /\ cachedVideos[UPs[i].UID].expireAt = pass.now + EffectiveTTL(i)

\* a refreshed source with an override, under a widget with another default
C13_Witness ==
  \E i \in 1..Len(UPs) :
    /\ Refreshed(i)
    /\ ~isDevelopment
    /\ UPs[i].Cache > 0
    /\ UpdateInterval > 0
    /\ UPs[i].Cache # UpdateInterval
    /\ pass.now > 0

-----------------------------------------------------------------------------
(* C14 *)

\* the outcome stored for request i is a failure: transport, decode or status
OutcomeFailed(i) == results[i].err # "nil" \/ results[i].Code # 0

\* every request of the running fetch has been issued and has its outcome
BatchComplete ==
  /\ tasksQueue = Len(pass.requests) + 1
  /\ \A i \in 1..Len(pass.requests) : i \in DOMAIN results
  /\ \A w \in Workers : workers[w].pc = "idle"

\* C14: within one fetch a failing source never keeps the others from being
\* fetched: when the fetch returns (the pool itself not failing) every
\* request was issued and has its outcome, every item of every successful
\* outcome is among the videos, the failures are counted, and the error of
\* the pass is set only then, once.
C14_FailureDoesNotStopTheOthers ==
  [][(pc \in FetchingPcs /\ (Error' # Error \/ pc' \in ReturnedPcs)
        /\ ~pass'.poolErr) =>
       /\ pc' \in ReturnedPcs
       /\ BatchComplete
       /\ \A i \in 1..Len(pass.requests) :
            ~OutcomeFailed(i) =>
              \A k \in 1..Len(results[i].Vlist) :
                \E j \in 1..Len(pass'.newVideos) :
                  pass'.newVideos[j].TimePosted = results[i].Vlist[k]
       /\ pass'.err.is = "errPartialContent" =>
            pass'.err.failed =
              Cardinality({i \in 1..Len(pass.requests) : OutcomeFailed(i)})
  ]_vars

\* a fetch has returned in which the first request failed and the second
\* brought a video
C14_Witness ==
  /\ pc \in ReturnedPcs
  /\ Fetched
  /\ ~pass.poolErr
  /\ Len(pass.requests) = 2
  /\ RequestFailed(1)
  /\ ~RequestFailed(2)
  /\ Len(pass.newVideos) = 1
  /\ pass.err = errPartialContent(1)

-----------------------------------------------------------------------------
(* C15 *)

\* the returning pass refreshed its stale sources, each configured once and
\* each with a request
RefreshPass ==
  /\ Fetched
  /\ pass.ret = "done"
  /\ Len(pass.requests) = Len(pass.needUpdate)
  /\ \A i, j \in 1..Len(UPs) : UPs[i].UID = UPs[j].UID => i = j

\* C15: a refresh replaces the entry of a source wholesale: after a
\* successful refresh of source s the videos of its entry are exactly the
\* items fetched for s in this pass, with no item of the previous entry and
\* no item of another source, and the expiry is written with them.
C15_RefreshReplacesEntryWholesale ==
  RefreshPass =>
    \A i \in 1..Len(pass.requests) :
      /\ pass.requests[i] \in DOMAIN cachedVideos
      /\ cachedVideos[pass.requests[i]].videos =
           [k \in 1..Len(pass.task[i].Vlist) |->
              [AuthorUrl |-> SpaceUrl \o pass.requests[i],
               TimePosted |-> pass.task[i].Vlist[k]]]
      /\ cachedVideos[pass.requests[i]].expireAt >= pass.now

-----------------------------------------------------------------------------
(* C16 *)

\* a request of a worker is in flight: taken and not yet answered
InFlight == \E w \in Workers : workers[w].pc # "idle"

-----------------------------------------------------------------------------
(* C17 *)

\* the configured source IDs
ConfiguredUIDs == {UPs[i].UID : i \in 1..Len(UPs)}

\* C17: after initialize(), over any sequence of update and Render calls,
\* every key of the cache is a configured source ID, and an entry is only
\* created or overwritten, never deleted: a source that has an entry has one
\* in every later state.
C17_EntriesAreNeverDeleted ==
  /\ [](DOMAIN cachedVideos \subseteq ConfiguredUIDs)
  /\ [][DOMAIN cachedVideos \subseteq DOMAIN cachedVideos']_vars

\* a pass has overwritten the entry of one source and kept the entry of
\* another, which it did not fetch
C17_Witness ==
  /\ Returning
  /\ pass.ret = "done"
  /\ \E s \in DOMAIN pass.cachedVideos :
       /\ contains(pass.needUpdate, s)
       /\ cachedVideos[s] # pass.cachedVideos[s]
  /\ \E s \in DOMAIN pass.cachedVideos :
       /\ ~contains(pass.needUpdate, s)
       /\ cachedVideos[s] = pass.cachedVideos[s]

-----------------------------------------------------------------------------
(* C18 *)

\* C18: every pass terminates: when each transport call returns and the
\* workers and the thread that runs update are scheduled fairly, a call of
\* update that has begun (checking, then fetching if a source is stale)
\* reaches its return, merged or failed, and its caller goes on; update never
\* waits forever for the workers or for the wait of the rate limit. Render
\* starts at most one pass per call: after the pass it started returns,
\* Render ends without another.
C18_EveryPassTerminates ==
  /\ (pc \in FetchingPcs) ~> (pc \in ReturnedPcs /\ pass.ret \in {"done", "failed"})
  /\ (pc # "idle") ~> (pc = "idle")
  /\ [][pc = "render_fetching" => pc' \in {"render_fetching", "render"}]_vars
  /\ [][pc = "render" => pc' \in {"render", "idle"}]_vars

\* a pass of two requests has returned, its last request issued a full
\* delay after the one before
C18_Witness ==
  /\ pc \in ReturnedPcs
  /\ Fetched
  /\ \E w \in Workers : workers[w].pc = "idle"
  /\ Len(pass.requests) = NumWorkers
  /\ lastGap = Delay
  /\ sinceLastReq < Delay

-----------------------------------------------------------------------------
(* C19 *)

\* the returning pass reached its end with no failure: nothing was stale, or
\* every stale source had its request and every request succeeded
CleanPass ==
  /\ Returning
  /\ pass.ret = "done"
  /\ pass.err = NilErr
  /\ Len(pass.requests) = Len(pass.needUpdate)
  /\ \A i \in 1..Len(pass.requests) : ~RequestFailed(i)

\* C19: the reported error is that of the latest pass: after a pass that
\* reaches its end with no fetch failure, widget.Error is nil, even if an
\* earlier pass or an earlier Render had set it.
C19_ErrorReflectsLatestPass == CleanPass => Error = NoError

-----------------------------------------------------------------------------
(* C20: repeated passes in normal mode over two sources, the first of which *)
(* (A) always answers with videos while the second (B) fails on every fetch  *)
(* after hour 0.                                                             *)

\* source A and source B
SourceA == UPs[1].UID
SourceB == UPs[2].UID

\* what the transport does during a call at instant now when A is up and B
\* is down after hour 0
StarveCalls(now) ==
  LET requests == BuildRequests(NeedUpdate(isDevelopment, UPs, cachedVideos, now))
  IN  { c \in Calls(now) :
          /\ ~c.poolErr
          /\ \A i \in 1..Len(requests) :
               /\ requests[i] = SourceA =>
                    /\ c.task[i].err = "nil"
                    /\ c.task[i].Code = 0
                    /\ c.task[i].Vlist # <<>>
               /\ (requests[i] = SourceB /\ now > 0) =>
                    (c.task[i].err # "nil" \/ c.task[i].Code # 0) }

\* normal mode, two sources with different IDs whose requests can be built
StarveInit ==
  /\ Init
  /\ ~isDevelopment
  /\ Len(UPs) = 2
  /\ SourceA # SourceB
  /\ \A i \in 1..Len(UPs) : ~NewRequestFails(UPs[i].UID)

\* the scheduler calls update
StarveUpdate ==
  /\ pc = "idle"
  /\ \E now \in clock..MaxTime : \E c \in StarveCalls(now) :
       update(now, c.task, c.poolErr)
  /\ pc' = "updated"
  /\ UNCHANGED <<config, pool>>

StarveNext == StarveUpdate \/ UpdateReturn \/ RenderCached

\* a call of update by the scheduler
CallStep == pc = "idle" /\ pc' = "updated"

\* the scheduler goes on calling update, and every call returns
SpecStarve ==
  StarveInit /\ [][StarveNext]_vars /\ WF_pc(CallStep) /\ WF_vars(UpdateReturn)

\* A has an entry and the latest pass ran after its expiry
AStale ==
  /\ SourceA \in DOMAIN cachedVideos
  /\ clock > cachedVideos[SourceA].expireAt

\* C20: a failing source does not starve the others: over repeated passes
\* in normal mode, with A answering every fetch and B failing every fetch,
\* once the entry of A has expired it is eventually refreshed (its expireAt
\* moves past the time of the pass) and its new items are published.
C20_FailingSourceDoesNotStarve == AStale ~> ~AStale

=============================================================================
